---- MODULE Spec2Model ----
(***************************************************************************)
(* Model of recall (adinschmidt/recall): the incremental OCR cache kept in *)
(* the SQLite table ocr_results, the directory walk that fills it, and the *)
(* fuzzy-ranked search over it (src/src/main.rs, src/src/database.rs).     *)
(***************************************************************************)
EXTENDS Integers, Sequences, FiniteSets, TLC

\* ------------------------------------------------------------------ bounds
\* Clock ticks 0..MaxTime the wall clock can show.
MaxTime == 2
\* Largest score the matcher hands out in the model (u16 in the code).
MaxScore == 1
\* Ranking specification: longest candidate list, and how many of its
\* leading candidates get an independently chosen score.
MaxCands == 12
FreeLen == 4

\* --------------------------------------------------------- program constants
\* .take(10) of search_ocr_results.
TakeLimit == 10

VARIABLES
    store,        \* rows of ocr_results, in rowid order
    written,      \* history: file -> the text and tick of its latest store_ocr_result,
                  \* and the modified-time the file had when its bytes were read
    mtime,        \* filesystem: canonical file path -> tick of last modification
    now,          \* wall clock, in ticks
    pc,           \* position of main: idle, walk, commit, indexed, search, done,
                  \* index_failed, search_failed
    directory,    \* cli.directory of the running invocation
    entries,      \* entries read_dir yields for it
    idx,          \* next entry of the walk
    last,         \* history: what the latest loop iteration did, or that the
                  \* process was killed ("interrupted")
    okFiles,      \* history: identities this run extracted and stored successfully
    failures,     \* history: the kinds of failure this run has met
    pending,      \* process_image between extract_text and store_ocr_result
    prev,         \* history: the latest completed index run, while no file of
                  \* its directory has been modified since
    items,        \* items_to_search of the latest search
    scores,       \* matcher outcome for each of them
    results,      \* what the latest search returned
    searched      \* the latest search: none, scoped, global, error; input, ranked

vars == <<store, written, mtime, now, pc, directory, entries, idx,
          last, okFiles, failures, pending, prev, items, scores, results, searched>>

\* ------------------------------------------------------------------- paths
\* A path is a sequence of components; an absolute path starts with "/".
RECURSIVE JoinComps(_)
JoinComps(p) ==
    IF Len(p) = 0 THEN ""
    ELSE IF Len(p) = 1 THEN p[1]
    ELSE p[1] \o "/" \o JoinComps(Tail(p))

\* Path::to_string_lossy / Path::display
PathStr(p) ==
    IF Len(p) > 0 /\ p[1] = "/" THEN "/" \o JoinComps(Tail(p)) ELSE JoinComps(p)

\* Path::parent and Path::file_name of a path with at least two components
Parent(p) == SubSeq(p, 1, Len(p) - 1)
FileName(p) == p[Len(p)]

\* Path::new(dir_str).join(filename).to_string_lossy()
JoinStr(dir_str, filename) ==
    IF dir_str = "/" THEN dir_str \o filename ELSE dir_str \o "/" \o filename

\* -------------------------------------------------------------- filesystem
\* The directory tree the program is run against:
\*   /a/x.png        a picture
\*   /a/sub          a subdirectory
\*   /a/n.txt        a file that is no picture
\*   /a/s.png        a symbolic link to /b/t.PNG
\*   /b/t.PNG        a picture
\*   /b/h.heic       a picture in a format the walk does not list
\*   /m              does not exist
\* with /a the working directory of the process.
DirA == <<"/", "a">>
DirB == <<"/", "b">>
DirM == <<"/", "m">>
\* cli.directory: "." (the default), /b, /m, or the file /a/n.txt
Dot == <<".">>
FileN == <<"/", "a", "n.txt">>
FileH == <<"/", "b", "h.heic">>
DirArgs == {Dot, DirB, DirM, FileN}

FileX == <<"/", "a", "x.png">>
FileT == <<"/", "b", "t.PNG">>
Files == {FileX, FileT}
\* The pictures somebody modifies while the program is in use.
Touched == {FileX}

\* Path::canonicalize on the tree above
Canonicalize(p) ==
    LET q == IF Len(p) >= 1 /\ p[1] = "."
             THEN DirA \o SubSeq(p, 2, Len(p)) ELSE p
        r == IF q = <<"/", "a", "s.png">> THEN FileT ELSE q
    IN  IF r \in {DirA, DirB, FileX, FileT, <<"/", "a", "sub">>, FileN, FileH}
        THEN [ok |-> TRUE, path |-> r]
        ELSE [ok |-> FALSE, path |-> <<>>]

\* Faulty variant: every path passes for a directory.
IsDir_always(p) == TRUE

\* Path::is_dir and Path::is_file (both follow symbolic links)
IsDir(p) ==
    LET c == Canonicalize(p)
    IN  c.ok /\ c.path \in {DirA, DirB, <<"/", "a", "sub">>}

IsFile(p) ==
    LET c == Canonicalize(p)
    IN  c.ok /\ c.path \in {FileX, FileT, FileN, FileH}

\* fs::read_dir: the entry paths are the given directory joined with each name
ReadDir(d) ==
    LET c == Canonicalize(d).path
        names == IF c = DirA THEN <<"x.png", "sub", "n.txt", "s.png">>
                 ELSE IF c = DirB THEN <<"t.PNG", "h.heic">>
                 ELSE <<>>
    IN  [i \in 1..Len(names) |-> Append(d, names[i])]

\* Path::extension of the file names above ("" stands for None)
Extension(p) ==
    LET n == FileName(p)
    IN  IF n \in {"x.png", "s.png"} THEN "png"
        ELSE IF n = "t.PNG" THEN "PNG"
        ELSE IF n = "n.txt" THEN "txt"
        ELSE IF n = "h.heic" THEN "heic"
        ELSE ""

\* str::to_lowercase on the extensions above
ToLowercase(e) == IF e = "PNG" THEN "png" ELSE e

SUPPORTED_EXTENSIONS == {"jpg", "jpeg", "png", "gif", "bmp", "tiff", "webp"}

\* -------------------------------------------------------------------- time
\* A tick of the clock as a chrono instant: four ticks to the second, at
\* nanosecond offsets that exercise every precision to_rfc3339 prints.
Instant(t) ==
    [sec |-> t \div 4,
     nano |-> CASE t % 4 = 0 -> 0
                [] t % 4 = 1 -> 1
                [] t % 4 = 2 -> 1000
                [] OTHER -> 1000000]

\* DateTime < DateTime
Before(a, b) == a.sec < b.sec \/ (a.sec = b.sec /\ a.nano < b.nano)

RECURSIVE Pow10(_)
Pow10(n) == IF n = 0 THEN 1 ELSE 10 * Pow10(n - 1)

\* DateTime<Utc>::to_rfc3339: SecondsFormat::AutoSi prints 0, 3, 6 or 9
\* fractional digits, whichever is the fewest that loses nothing.
ToRfc3339(i) ==
    LET d == IF i.nano = 0 THEN 0
             ELSE IF i.nano % 1000000 = 0 THEN 3
             ELSE IF i.nano % 1000 = 0 THEN 6
             ELSE 9
    IN  [secs |-> i.sec, digits |-> d, frac |-> i.nano \div Pow10(9 - d),
         offset |-> "+00:00"]

\* DateTime::parse_from_rfc3339(..).with_timezone(&Utc)
ParseRfc3339(s) ==
    IF s.offset = "+00:00" /\ s.digits \in 0..9 /\ s.frac < Pow10(s.digits)
    THEN [ok |-> TRUE,
          val |-> [sec |-> s.secs, nano |-> s.frac * Pow10(9 - s.digits)]]
    ELSE [ok |-> FALSE, val |-> [sec |-> 0, nano |-> 0]]

\* -------------------------------------------------------------------- text
Whitespace == {" ", "\n", "\t"}

RECURSIVE TrimStart(_)
TrimStart(t) ==
    IF Len(t) > 0 /\ t[1] \in Whitespace THEN TrimStart(Tail(t)) ELSE t

RECURSIVE TrimEnd(_)
TrimEnd(t) ==
    IF Len(t) > 0 /\ t[Len(t)] \in Whitespace
    THEN TrimEnd(SubSeq(t, 1, Len(t) - 1)) ELSE t

\* str::trim
Trim(t) == TrimEnd(TrimStart(t))

\* What ocr::extract_text can return for a picture.
RawTexts == {<<>>, <<" ", "\n">>, <<" ", "h", "i", "\n">>, <<"c", "a", "t">>}

\* ------------------------------------------------------------------- store
\* The rows of ocr_results a key selects.
RowsOf(st, filename, path) ==
    {i \in 1..Len(st) : st[i].filename = filename /\ st[i].path = path}

\* Faulty variant: the INSERT drops every other row of the table.
InsertOrReplace_wipe(st, row) == <<row>>

\* Faulty variant: the new row is left half-written, without its text.
InsertOrReplace_partial(st, row) ==
    Append(SelectSeq(st, LAMBDA r : ~(r.filename = row.filename /\ r.path = row.path)),
           [row EXCEPT !.text = <<>>])

\* Faulty variant: a table without the primary key, so that the INSERT only adds.
InsertOrReplace_append(st, row) == Append(st, row)

\* INSERT OR REPLACE under PRIMARY KEY (filename, path): the row that holds
\* the key is deleted and the new row gets a fresh rowid.
InsertOrReplace(st, row) ==
    LET Keeps(r) == ~(r.filename = row.filename /\ r.path = row.path)
    IN  Append(SelectSeq(st, Keeps), row)

\* Faulty variant: the whole path, not its parent, goes into the path column.
store_ocr_result_noparent(st, full_path, text, t) ==
    InsertOrReplace(st,
        [filename |-> FileName(full_path), path |-> PathStr(full_path),
         text |-> text, ocr_date |-> ToRfc3339(Instant(t)),
         ocr_success |-> TRUE, ocr_engine |-> "tesseract"])

store_ocr_result(st, full_path, text, t) ==
    LET filename == FileName(full_path)
        parent_dir_path == PathStr(Parent(full_path))
        ocr_date == ToRfc3339(Instant(t))
    IN  InsertOrReplace(st,
            [filename |-> filename, path |-> parent_dir_path, text |-> text,
             ocr_date |-> ocr_date, ocr_success |-> TRUE,
             ocr_engine |-> "tesseract"])

\* Faulty variant: every file is taken to need OCR.
needs_ocr_always(st, path, meta) == [ok |-> TRUE, val |-> TRUE]

\* Faulty variant: a date or modified-time that cannot be read counts as fresh.
needs_ocr_guess(st, path, meta) ==
    LET found == RowsOf(st, FileName(path), PathStr(Parent(path)))
    IN  IF found = {} THEN [ok |-> TRUE, val |-> TRUE]
        ELSE LET row == st[CHOOSE i \in found : \A j \in found : i <= j]
                 ocr_date == ParseRfc3339(row.ocr_date)
             IN  IF ~ocr_date.ok \/ ~meta.ok THEN [ok |-> TRUE, val |-> FALSE]
                 ELSE [ok |-> TRUE,
                       val |-> Before(ocr_date.val, Instant(meta.val))]

\* Faulty variant: a tie of ocr_date and modified-time counts as stale.
needs_ocr_le(st, path, meta) ==
    LET found == RowsOf(st, FileName(path), PathStr(Parent(path)))
    IN  IF found = {} THEN [ok |-> TRUE, val |-> TRUE]
        ELSE LET row == st[CHOOSE i \in found : \A j \in found : i <= j]
                 ocr_date == ParseRfc3339(row.ocr_date)
             IN  IF ~ocr_date.ok \/ ~meta.ok THEN [ok |-> FALSE, val |-> FALSE]
                 ELSE [ok |-> TRUE,
                       val |-> ~Before(Instant(meta.val), ocr_date.val)]

\* needs_ocr; meta is what path.metadata()?.modified() gives.
needs_ocr(st, path, meta) ==
    LET filename == FileName(path)
        parent_path_str == PathStr(Parent(path))
        found == RowsOf(st, filename, parent_path_str)
    IN  IF found = {} THEN [ok |-> TRUE, val |-> TRUE]
        ELSE LET row == st[CHOOSE i \in found : \A j \in found : i <= j]
                 ocr_date == ParseRfc3339(row.ocr_date)
             IN  IF ~ocr_date.ok THEN [ok |-> FALSE, val |-> FALSE]
                 ELSE IF ~meta.ok THEN [ok |-> FALSE, val |-> FALSE]
                 ELSE [ok |-> TRUE,
                       val |-> Before(ocr_date.val, Instant(meta.val))]

\* Faulty variant: a picture without text gets a row with empty text.
process_image_marks_empty(st, path, ext, t) ==
    IF ~ext.ocr_ok THEN [ok |-> FALSE, store |-> st, verdict |-> "extract_err"]
    ELSE IF ~ext.store_ok THEN [ok |-> FALSE, store |-> st, verdict |-> "store_err"]
    ELSE [ok |-> TRUE, store |-> store_ocr_result(st, path, Trim(ext.text), t),
          verdict |-> IF Trim(ext.text) # <<>> THEN "stored" ELSE "empty"]

\* Faulty variant: the text is stored without the emptiness test.
process_image_unchecked(st, path, ext, t) ==
    IF ~ext.ocr_ok THEN [ok |-> FALSE, store |-> st, verdict |-> "extract_err"]
    ELSE IF ext.store_ok
    THEN [ok |-> TRUE, store |-> store_ocr_result(st, path, Trim(ext.text), t),
          verdict |-> "stored"]
    ELSE [ok |-> FALSE, store |-> st, verdict |-> "store_err"]

\* process_image; ext is what opening, decoding and OCR of the file give,
\* and whether the INSERT goes through.
process_image(st, path, ext, t) ==
    IF ~ext.ocr_ok THEN [ok |-> FALSE, store |-> st, verdict |-> "extract_err"]
    ELSE LET trimmed_text == Trim(ext.text)
         IN  IF trimmed_text # <<>>
             THEN IF ext.store_ok
                  THEN [ok |-> TRUE,
                        store |-> store_ocr_result(st, path, trimmed_text, t),
                        verdict |-> "stored"]
                  ELSE [ok |-> FALSE, store |-> st, verdict |-> "store_err"]
             ELSE [ok |-> TRUE, store |-> st, verdict |-> "empty"]

\* Faulty variant: the error of process_image is propagated with ?.
on_process_result_propagate(r) ==
    [store |-> r.store, verdict |-> r.verdict, abort |-> ~r.ok]

\* What the walk does with the outcome of process_image: an error is logged
\* and the loop goes on.
on_process_result(r) ==
    [store |-> r.store, verdict |-> r.verdict, abort |-> FALSE]

\* One iteration of the for loop of search_and_ocr_photos. env is what the
\* environment does to this iteration: whether the entry can be read, the
\* path canonicalized, the modified-time read, and what extraction gives.
loop_body(st, mt, entry, env, t) ==
    LET skip(v) == [store |-> st, verdict |-> v, abort |-> FALSE,
                    path |-> <<>>, needed |-> FALSE]
        stop(v, p) == [store |-> st, verdict |-> v, abort |-> TRUE,
                       path |-> p, needed |-> FALSE]
    IN  IF ~env.entry_ok THEN stop("entry_err", <<>>)
        ELSE IF ~IsFile(entry) THEN skip("not_file")
        ELSE IF ~env.canon_ok \/ ~Canonicalize(entry).ok THEN skip("canon_err")
        ELSE LET absolute_path == Canonicalize(entry).path
                 ext_lower == ToLowercase(Extension(absolute_path))
             IN  IF Extension(absolute_path) = "" \/ ext_lower \notin SUPPORTED_EXTENSIONS
                 THEN skip("unsupported")
                 ELSE LET meta == [ok |-> env.meta_ok /\ absolute_path \in DOMAIN mt,
                                   val |-> IF absolute_path \in DOMAIN mt
                                           THEN mt[absolute_path] ELSE 0]
                          n == needs_ocr(st, absolute_path, meta)
                      IN  IF ~n.ok THEN stop("stale_err", absolute_path)
                          ELSE IF ~n.val
                          THEN [store |-> st, verdict |-> "fresh", abort |-> FALSE,
                                path |-> absolute_path, needed |-> FALSE]
                          ELSE LET r == on_process_result(
                                            process_image(st, absolute_path, env, t))
                               IN  [store |-> r.store, verdict |-> r.verdict,
                                    abort |-> r.abort, path |-> absolute_path,
                                    needed |-> TRUE]

\* ------------------------------------------------------------------ search
\* The matcher reports no match (None) as NoMatch, a match as its score.
NoMatch == 0 - 1
ScoreVals == {NoMatch} \cup (0..MaxScore)

\* SELECT filename, path, text FROM ocr_results, each row as (full path, text)
query_global(st) ==
    [i \in 1..Len(st) |-> <<JoinStr(st[i].path, st[i].filename), st[i].text>>]

\* Faulty variant: the WHERE clause is missing.
query_scoped_nowhere(st, active_dir_str) ==
    [i \in 1..Len(st) |-> <<JoinStr(active_dir_str, st[i].filename), st[i].text>>]

\* SELECT filename, text FROM ocr_results WHERE path = ?1, each row as
\* (active directory joined with filename, text)
query_scoped(st, active_dir_str) ==
    LET InDir(r) == r.path = active_dir_str
        rows == SelectSeq(st, InDir)
    IN  [i \in 1..Len(rows) |-> <<JoinStr(active_dir_str, rows[i].filename), rows[i].text>>]

\* Faulty variant: no match is ranked with score 0 (unwrap_or(0)).
RECURSIVE fuzzy_filter_zero(_, _)
fuzzy_filter_zero(its, sc) ==
    IF Len(its) = 0 THEN <<>>
    ELSE <<[score |-> IF sc[1] = 0 - 1 THEN 0 ELSE sc[1],
            path |-> its[1][1], text |-> its[1][2]]>>
         \o fuzzy_filter_zero(Tail(its), Tail(sc))

\* The loop over items_to_search: a candidate is pushed only on Some(score).
RECURSIVE fuzzy_filter(_, _)
fuzzy_filter(its, sc) ==
    IF Len(its) = 0 THEN <<>>
    ELSE LET rest == fuzzy_filter(Tail(its), Tail(sc))
         IN  IF sc[1] # NoMatch
             THEN <<[score |-> sc[1], path |-> its[1][1], text |-> its[1][2]]>> \o rest
             ELSE rest

\* Faulty variant: equal scores are not kept in their order.
RECURSIVE insert_desc_unstable(_, _)
insert_desc_unstable(s, x) ==
    IF Len(s) = 0 THEN <<x>>
    ELSE IF s[1].score > x.score THEN <<s[1]>> \o insert_desc_unstable(Tail(s), x)
    ELSE <<x>> \o s

\* Where a stable descending sort puts x in the sorted sequence s: after
\* every element whose score is not smaller.
RECURSIVE insert_desc(_, _)
insert_desc(s, x) ==
    IF Len(s) = 0 THEN <<x>>
    ELSE IF s[1].score >= x.score THEN <<s[1]>> \o insert_desc(Tail(s), x)
    ELSE <<x>> \o s

\* ranked_results.sort_by_key(|k| Reverse(k.0)): slice::sort_by_key is stable
RECURSIVE sort_by_key_rev(_)
sort_by_key_rev(s) ==
    IF Len(s) = 0 THEN <<>>
    ELSE insert_desc(sort_by_key_rev(SubSeq(s, 1, Len(s) - 1)), s[Len(s)])

\* Faulty variant: one result too few.
Take_short(s, n) == SubSeq(s, 1, IF Len(s) < n - 1 THEN Len(s) ELSE n - 1)

\* Iterator::take
Take(s, n) == SubSeq(s, 1, IF Len(s) < n THEN Len(s) ELSE n)

\* The ranking part of search_ocr_results
rank(its, sc) ==
    IF Len(its) = 0 THEN <<>>
    ELSE LET ranked_results == sort_by_key_rev(fuzzy_filter(its, sc))
             top == Take(ranked_results, TakeLimit)
         IN  [i \in 1..Len(top) |-> <<top[i].path, top[i].text>>]

\* The query part of search_ocr_results
items_to_search(st, active_directory, global_search) ==
    IF global_search THEN [ok |-> TRUE, items |-> query_global(st)]
    ELSE LET canonical_active_dir == Canonicalize(active_directory)
         IN  IF ~canonical_active_dir.ok THEN [ok |-> FALSE, items |-> <<>>]
             ELSE [ok |-> TRUE,
                   items |-> query_scoped(st, PathStr(canonical_active_dir.path))]

\* ------------------------------------------------------------------ actions
Identity(p) == <<FileName(p), PathStr(Parent(p))>>

NoLast ==
    [verdict |-> "none", filename |-> "", path |-> "", ocr |-> FALSE,
     text |-> <<>>, at |-> 0, changed |-> FALSE, replaced |-> FALSE]

NotWritten == [at |-> 0 - 1, text |-> <<>>, src |-> 0 - 1]

NoPrev == [dir |-> <<>>, ok |-> {}]

\* The pictures an index run of directory d comes to.
FilesOf(d) ==
    {Canonicalize(ReadDir(d)[i]).path : i \in 1..Len(ReadDir(d))} \cap Files

\* The kind of failure a verdict of the loop body stands for.
FailureOf(v) ==
    CASE v = "entry_err" -> {"entry"}
      [] v = "stale_err" -> {"stale"}
      [] v = "canon_err" -> {"canon"}
      [] v = "extract_err" -> {"extract"}
      [] v = "store_err" -> {"store"}
      [] OTHER -> {}

\* The environments of one iteration. The steps of an iteration run in
\* sequence and the first failure ends it, so an environment with one failure
\* stands for all those that agree with it up to that failure.
EnvOk ==
    [entry_ok |-> TRUE, canon_ok |-> TRUE, meta_ok |-> TRUE, ocr_ok |-> TRUE,
     text |-> <<>>, store_ok |-> TRUE]
Envs ==
    {[EnvOk EXCEPT !.entry_ok = FALSE], [EnvOk EXCEPT !.canon_ok = FALSE],
     [EnvOk EXCEPT !.meta_ok = FALSE], [EnvOk EXCEPT !.ocr_ok = FALSE]}
    \cup {[EnvOk EXCEPT !.text = t] : t \in RawTexts}
    \cup {[EnvOk EXCEPT !.text = t, !.store_ok = FALSE] :
              t \in {x \in RawTexts : Trim(x) # <<>>}}

NoPending == [path |-> <<>>, env |-> EnvOk, src |-> 0]

Init ==
    /\ store = <<>>
    /\ written = [f \in Files |-> NotWritten]
    /\ mtime = [f \in Files |-> 0]
    /\ now = 0
    /\ pc = "idle"
    /\ directory = <<>>
    /\ entries = <<>>
    /\ idx = 1
    /\ last = NoLast
    /\ okFiles = {}
    /\ failures = {}
    /\ pending = NoPending
    /\ prev = NoPrev
    /\ items = <<>>
    /\ scores = <<>>
    /\ results = <<>>
    /\ searched = "none"

\* main up to the for loop: the connection is opened, init_db creates the
\* table if it is missing, and the directory is listed if it is one.
StartIndex(d, rd_ok) ==
    /\ pc = "idle"
    /\ directory' = d
    /\ idx' = 1
    /\ IF ~IsDir(d)
       THEN /\ pc' = "indexed"
            /\ entries' = <<>>
            /\ failures' = {}
       ELSE IF ~rd_ok
       THEN /\ pc' = "index_failed"
            /\ entries' = <<>>
            /\ failures' = {"read_dir"}
       ELSE /\ pc' = "walk"
            /\ entries' = ReadDir(d)
            /\ failures' = {}
    /\ UNCHANGED <<store, written, mtime, now, last, okFiles, items,
                   scores, results, searched, pending, prev>>

WalkStep(env) ==
    /\ pc = "walk"
    /\ idx <= Len(entries)
    /\ LET r == loop_body(store, mtime, entries[idx], env, now)
           id == IF r.path = <<>> THEN <<"", "">> ELSE Identity(r.path)
       IN  IF r.verdict \in {"stored", "store_err"}
           THEN \* process_image has come to store_ocr_result
                /\ pc' = "commit"
                /\ pending' = [path |-> r.path, env |-> env, src |-> mtime[r.path]]
                /\ UNCHANGED <<store, written, last, okFiles, failures, idx>>
           ELSE /\ store' = r.store
                /\ last' = [verdict |-> r.verdict, filename |-> id[1], path |-> id[2],
                            ocr |-> r.needed /\ env.ocr_ok,
                            text |-> IF r.needed /\ env.ocr_ok THEN env.text ELSE <<>>,
                            at |-> now,
                            changed |-> r.store # store,
                            replaced |-> FALSE]
                /\ failures' = failures \cup FailureOf(r.verdict)
                /\ IF r.abort
                   THEN pc' = "index_failed" /\ idx' = idx
                   ELSE pc' = "walk" /\ idx' = idx + 1
                /\ UNCHANGED <<written, okFiles, pending>>
    /\ UNCHANGED <<mtime, now, directory, entries, prev, items, scores,
                   results, searched>>

\* store_ocr_result of the iteration under way: the row is stamped with the
\* time of the INSERT, which one statement writes whole or not at all.
CommitStep ==
    /\ pc = "commit"
    /\ LET r == on_process_result(
                    process_image(store, pending.path, pending.env, now))
           id == Identity(pending.path)
           wrote == r.verdict = "stored"
       IN  /\ store' = r.store
           /\ written' = IF wrote
                         THEN [written EXCEPT ![pending.path] =
                                   [at |-> now, text |-> Trim(pending.env.text),
                                    src |-> pending.src]]
                         ELSE written
           /\ last' = [verdict |-> r.verdict, filename |-> id[1], path |-> id[2],
                       ocr |-> TRUE, text |-> pending.env.text, at |-> now,
                       changed |-> r.store # store,
                       replaced |-> wrote /\ RowsOf(store, id[1], id[2]) # {}]
           /\ okFiles' = IF Trim(pending.env.text) # <<>> /\ pending.env.store_ok
                         THEN okFiles \cup {id} ELSE okFiles
           /\ failures' = failures \cup FailureOf(r.verdict)
           /\ IF r.abort
              THEN pc' = "index_failed" /\ idx' = idx
              ELSE pc' = "walk" /\ idx' = idx + 1
    /\ pending' = NoPending
    /\ UNCHANGED <<mtime, now, directory, entries, prev, items, scores,
                   results, searched>>

\* The process is killed in the middle of the walk: what the database file
\* holds stays, everything else is gone.
Kill ==
    /\ pc \in {"walk", "commit"}
    /\ pc' = "idle"
    /\ directory' = <<>>
    /\ entries' = <<>>
    /\ idx' = 1
    /\ last' = [NoLast EXCEPT !.verdict = "interrupted"]
    /\ okFiles' = {}
    /\ failures' = {}
    /\ pending' = NoPending
    /\ UNCHANGED <<store, written, mtime, now, prev, items, scores, results,
                   searched>>

\* The loop is over: search_and_ocr_photos returns Ok(()).
FinishIndex ==
    /\ pc = "walk"
    /\ idx > Len(entries)
    /\ pc' = "indexed"
    /\ UNCHANGED <<store, written, mtime, now, directory, entries, idx, last,
                   okFiles, failures, pending, prev, items, scores, results,
                   searched>>

\* main takes the Ok of search_and_ocr_photos and goes on to the search;
\* the locals of the walk and its history are dropped.
BackInMain ==
    /\ pc = "indexed"
    /\ pc' = "search"
    /\ entries' = <<>>
    /\ idx' = 1
    /\ last' = NoLast
    /\ okFiles' = {}
    /\ failures' = {}
    /\ UNCHANGED <<store, written, mtime, now, directory, items, scores,
                   results, searched, pending, prev>>

\* main without a search text.
NoSearch ==
    /\ pc = "search"
    /\ pc' = "done"
    /\ searched' = "none"
    /\ UNCHANGED <<store, written, mtime, now, directory, entries, idx, last,
                   okFiles, failures, items, scores, results, pending, prev>>

\* main after indexing, with a search text: search_ocr_results. sc is what
\* the matcher reports for each candidate.
Search(global_search, sc) ==
    /\ pc = "search"
    /\ LET q == items_to_search(store, directory, global_search)
       IN  /\ DOMAIN sc = 1..Len(q.items)
           /\ items' = q.items
           /\ scores' = sc
           /\ results' = rank(q.items, sc)
           /\ searched' = IF ~q.ok THEN "error"
                          ELSE IF global_search THEN "global" ELSE "scoped"
           /\ pc' = IF q.ok THEN "done" ELSE "search_failed"
    /\ UNCHANGED <<store, written, mtime, now, directory, entries, idx, last,
                   okFiles, failures, pending, prev>>

\* The process ends; the next invocation starts from the database it left.
Exit ==
    /\ pc \in {"done", "index_failed", "search_failed"}
    /\ pc' = "idle"
    /\ directory' = <<>>
    /\ entries' = <<>>
    /\ idx' = 1
    /\ last' = NoLast
    /\ okFiles' = {}
    /\ failures' = {}
    /\ items' = <<>>
    /\ scores' = <<>>
    /\ results' = <<>>
    /\ searched' = "none"
    /\ UNCHANGED <<store, written, mtime, now, pending, prev>>

\* The environment acts between the steps of the walk and between
\* invocations; what it does after the walk commutes with the search, which
\* reads the store alone, so it is taken up again at idle.
\* The wall clock advances.
Tick ==
    /\ pc \in {"idle", "walk", "commit"}
    /\ now < MaxTime
    /\ now' = now + 1
    /\ UNCHANGED <<store, written, mtime, pc, directory, entries,
                   idx, last, okFiles, failures, items, scores, results, searched, pending, prev>>

\* Somebody modifies a picture: its modified-time becomes the current time.
Touch(f) ==
    /\ pc \in {"idle", "walk", "commit"}
    /\ mtime[f] # now
    /\ mtime' = [mtime EXCEPT ![f] = now]
    /\ UNCHANGED <<store, written, now, pc, directory, entries, idx, last,
                   okFiles, failures, pending, prev, items, scores, results,
                   searched>>

\* The search with any flag and any verdicts of the matcher.
SearchAny ==
    \E g \in BOOLEAN :
        \E sc \in [1..Len(items_to_search(store, directory, g).items) -> ScoreVals] :
            Search(g, sc)

Next ==
    \/ \E d \in DirArgs, rd_ok \in BOOLEAN : StartIndex(d, rd_ok)
    \/ \E env \in Envs : WalkStep(env)
    \/ CommitStep
    \/ Kill
    \/ FinishIndex
    \/ BackInMain
    \/ NoSearch
    \/ SearchAny
    \/ Exit
    \/ Tick
    \/ \E f \in Touched : Touch(f)

Spec == Init /\ [][Next]_vars

\* ------------------------------------------- one index run after another
\* The walk with a record of the latest completed run: which directory it
\* indexed and which identities obtained a row in it. The record is dropped
\* as soon as a picture of that directory is modified.
EnvsIdem ==
    {[EnvOk EXCEPT !.ocr_ok = FALSE],
     [EnvOk EXCEPT !.text = <<" ", "\n">>],
     [EnvOk EXCEPT !.text = <<"c", "a", "t">>]}

FinishIndexRec ==
    /\ pc = "walk"
    /\ idx > Len(entries)
    /\ pc' = "indexed"
    /\ prev' = [dir |-> directory, ok |-> okFiles]
    /\ UNCHANGED <<store, written, mtime, now, directory, entries, idx, last,
                   okFiles, failures, pending, items, scores, results, searched>>

TouchRec(f) ==
    /\ pc \in {"idle", "walk", "commit"}
    /\ mtime[f] # now
    /\ mtime' = [mtime EXCEPT ![f] = now]
    /\ prev' = IF f \in FilesOf(prev.dir) THEN NoPrev ELSE prev
    /\ UNCHANGED <<store, written, now, pc, directory, entries, idx, last,
                   okFiles, failures, pending, items, scores, results, searched>>

NextIdem ==
    \/ \E d \in {Dot, DirB} : StartIndex(d, TRUE)
    \/ \E env \in EnvsIdem : WalkStep(env)
    \/ CommitStep
    \/ FinishIndexRec
    \/ BackInMain
    \/ NoSearch
    \/ Exit
    \/ Tick
    \/ \E f \in Touched : TouchRec(f)

SpecIdem == Init /\ [][NextIdem]_vars

\* ------------------------------------------------- ranking on its own
\* The ranking part of search_ocr_results applied to candidate lists of up
\* to MaxCands candidates with distinct paths: the first FreeLen candidates
\* get any outcome of the matcher, the rest share one.
CandPath(i) == JoinStr("/a", "img" \o ToString(i) \o ".png")

InitRank ==
    /\ store = <<>>
    /\ written = [f \in Files |-> NotWritten]
    /\ mtime = [f \in Files |-> 0]
    /\ now = 0
    /\ pc = "idle"
    /\ directory = <<>>
    /\ entries = <<>>
    /\ idx = 1
    /\ last = NoLast
    /\ okFiles = {}
    /\ failures = {}
    /\ pending = NoPending
    /\ prev = NoPrev
    /\ \E n \in 0..MaxCands, pre \in [1..FreeLen -> ScoreVals], tl \in ScoreVals :
           /\ items = [i \in 1..n |-> <<CandPath(i), <<"c", "a", "t">>>>]
           /\ scores = [i \in 1..n |-> IF i <= FreeLen THEN pre[i] ELSE tl]
    /\ results = <<>>
    /\ searched = "input"

RankStep ==
    /\ searched = "input"
    /\ results' = rank(items, scores)
    /\ searched' = "ranked"
    /\ UNCHANGED <<store, written, mtime, now, pc, directory, entries, idx,
                   last, okFiles, failures, items, scores, pending, prev>>

SpecRank == InitRank /\ [][RankStep]_vars

\* ------------------------------------------------------------------ claims
RowFor(f) == RowsOf(store, FileName(f), PathStr(Parent(f)))

\* C1: needs_ocr is true for a file without a row; for a file whose row was
\* written at T it is true exactly when the modified-time M is after T, and
\* false when M = T or M < T.
C1_Staleness ==
    \A f \in Files, M \in 0..MaxTime :
        LET r == needs_ocr(store, f, [ok |-> TRUE, val |-> M])
        IN  /\ r.ok
            /\ (RowFor(f) = {}) => r.val
            /\ (RowFor(f) # {}) =>
                   /\ written[f].at >= 0
                   /\ r.val <=> (M > written[f].at)

\* The walk found a file fresh whose modified-time equals its extracted_at.
C1_Witness ==
    /\ last.verdict = "fresh"
    /\ \E f \in Files :
           /\ Identity(f) = <<last.filename, last.path>>
           /\ mtime[f] = written[f].at

\* C2: the store never holds two rows for one (filename, path), and after a
\* store the one row of the identity carries the values of that write.
C2_OneRowPerIdentity ==
    /\ \A i, j \in 1..Len(store) :
           (store[i].filename = store[j].filename /\ store[i].path = store[j].path)
               => i = j
    /\ (last.verdict = "stored") =>
           LET rows == RowsOf(store, last.filename, last.path)
           IN  /\ Cardinality(rows) = 1
               /\ \A i \in rows :
                      /\ store[i].text = Trim(last.text)
                      /\ store[i].ocr_date = ToRfc3339(Instant(last.at))
                      /\ store[i].ocr_success

\* A store has replaced the row the identity already had.
C2_Witness == last.verdict = "stored" /\ last.replaced

\* C3: an extraction whose text is empty after trimming leaves the store as
\* it was, and no row ever has empty or untrimmed text.
C3_EmptyTextNotPersisted ==
    /\ (last.ocr /\ Trim(last.text) = <<>>) => ~last.changed
    /\ \A i \in 1..Len(store) :
           store[i].text # <<>> /\ Trim(store[i].text) = store[i].text

\* Extraction gave only whitespace for a file that has a row.
C3_Witness ==
    /\ last.ocr
    /\ last.text # <<>>
    /\ Trim(last.text) = <<>>
    /\ RowsOf(store, last.filename, last.path) # {}

\* C4: an index run whose only failures are extraction failures (open,
\* decode, OCR, store) returns Ok, and every file it found stale and
\* extracted with non-empty text has a row when it ends.
C4_WalkResilience ==
    (pc \in {"indexed", "index_failed"}
        /\ failures \cap {"read_dir", "entry", "stale"} = {})
    => /\ pc = "indexed"
       /\ idx > Len(entries)
       /\ \A id \in okFiles : RowsOf(store, id[1], id[2]) # {}

\* A run ended Ok that stored a file after the extraction of an earlier one failed.
C4_Witness ==
    /\ pc = "indexed"
    /\ failures \cap {"extract", "store"} # {}
    /\ last.verdict = "stored"

\* C5: a staleness check that fails, or a directory entry that cannot be
\* read, does not end the run: the walk goes on to the remaining entries.
C5_PerFileErrorsCaught ==
    (last.verdict \in {"entry_err", "stale_err"}) => pc \in {"walk", "indexed"}

Ranked == searched \in {"ranked", "scoped", "global"}
Matching == {i \in 1..Len(items) : scores[i] # NoMatch}
Returned == {i \in 1..Len(items) : \E k \in 1..Len(results) : results[k] = items[i]}
IndexOf(c) == CHOOSE i \in 1..Len(items) : items[i] = c
Min(a, b) == IF a < b THEN a ELSE b

\* C6: a search returns min(10, m) candidates, m the number of matching
\* ones, and no matching candidate left out scores higher than a returned one.
C6_RankingBound ==
    Ranked =>
        /\ Len(results) = Min(TakeLimit, Cardinality(Matching))
        /\ \A k \in 1..Len(results) : \E i \in 1..Len(items) : results[k] = items[i]
        /\ Cardinality(Returned) = Len(results)
        /\ \A i \in Returned, j \in Matching \ Returned : scores[i] >= scores[j]

\* More than 10 candidates matched and a lower-scoring one was cut off.
C6_Witness ==
    /\ searched = "ranked"
    /\ Cardinality(Matching) > TakeLimit
    /\ Len(results) = TakeLimit
    /\ \E i \in Returned, j \in Matching \ Returned : scores[i] > scores[j]

\* C7: the results are in non-increasing order of score, and results of
\* equal score are in the order of their enumeration.
C7_SortedStable ==
    Ranked =>
        \A a, b \in 1..Len(results) :
            (a < b) =>
                /\ \E i \in 1..Len(items) : results[a] = items[i]
                /\ \E i \in 1..Len(items) : results[b] = items[i]
                /\ \/ scores[IndexOf(results[a])] > scores[IndexOf(results[b])]
                   \/ /\ scores[IndexOf(results[a])] = scores[IndexOf(results[b])]
                      /\ IndexOf(results[a]) < IndexOf(results[b])

\* Two results tie, and a later candidate was ranked before an earlier one.
C7_Witness ==
    /\ searched = "ranked"
    /\ \E a, b \in 1..Len(results) :
           a < b /\ scores[IndexOf(results[a])] = scores[IndexOf(results[b])]
    /\ \E a, b \in 1..Len(results) :
           a < b /\ IndexOf(results[a]) > IndexOf(results[b])

\* C8: a candidate the matcher reports no match for is in no result.
C8_NoMatchExcluded ==
    Ranked =>
        \A i \in 1..Len(items) :
            (scores[i] = NoMatch) => \A k \in 1..Len(results) : results[k] # items[i]

\* Fewer than 10 candidates matched, some did not, and something was returned.
C8_Witness ==
    /\ searched = "ranked"
    /\ \E i \in 1..Len(items) : scores[i] = NoMatch
    /\ Len(results) > 0
    /\ Len(results) < TakeLimit

\* C9: the candidates of a scoped search are the rows whose path column is
\* the canonical absolute path of the directory, those of a global search
\* are all rows.
C9_CandidateSets ==
    /\ (searched = "scoped") =>
           LET A == PathStr(Canonicalize(directory).path)
           IN  /\ Len(items) = Cardinality({i \in 1..Len(store) : store[i].path = A})
               /\ \A i \in 1..Len(store) :
                      (store[i].path = A) <=>
                          \E k \in 1..Len(items) :
                              items[k] = <<JoinStr(A, store[i].filename), store[i].text>>
    /\ (searched = "global") =>
           /\ Len(items) = Len(store)
           /\ \A i \in 1..Len(store) :
                  \E k \in 1..Len(items) :
                      items[k] = <<JoinStr(store[i].path, store[i].filename),
                                   store[i].text>>

\* A scoped search on "." left out a row of another directory.
C9_Witness ==
    /\ searched = "scoped"
    /\ directory = Dot
    /\ Len(items) > 0
    /\ Len(items) < Len(store)

\* The files stored under the directory the scoped search is about.
StoredUnder(d) ==
    {f \in Files : written[f].at >= 0
                   /\ PathStr(Parent(f)) = PathStr(Canonicalize(d).path)}

\* C10 as stated: after a file (f, d) is stored with text t, a search scoped
\* to d has the candidate (f, t), f being the bare filename.
C10_RoundTripFilename ==
    (searched = "scoped") =>
        \A f \in StoredUnder(directory) :
            \E k \in 1..Len(items) : items[k] = <<FileName(f), written[f].text>>

\* C10 amended: the candidate is (d joined with f, t).
C10_RoundTripFullPath ==
    (searched = "scoped") =>
        \A f \in StoredUnder(directory) :
            \E k \in 1..Len(items) : items[k] = <<PathStr(f), written[f].text>>

\* A scoped search on a directory a file was stored under.
C10_Witness ==
    /\ searched = "scoped"
    /\ StoredUnder(directory) # {}
    /\ Len(items) > 0

\* The entry the latest iteration of the running walk was about.
LastEntry == entries[idx - 1]
Iterated == pc \in {"walk", "indexed"} /\ idx > 1 /\ last.verdict # "none"

\* The eleven extensions of the specification.
ElevenExtensions ==
    {"jpg", "jpeg", "png", "gif", "bmp", "tiff", "webp", "avif", "heic", "heif", "jxl"}

\* C11: a regular file is considered for indexing exactly when its
\* extension, in lower case, is one of the eleven extensions jpg, jpeg, png,
\* gif, bmp, tiff, webp, avif, heic, heif, jxl; any other file is skipped
\* and causes no store write.
C11_ElevenExtensions ==
    (Iterated /\ last.verdict \notin {"entry_err", "not_file", "canon_err"}) =>
        LET e == ToLowercase(Extension(Canonicalize(LastEntry).path))
        IN  /\ (e \in ElevenExtensions) <=> (last.verdict # "unsupported")
            /\ (e \notin ElevenExtensions) => ~last.changed

\* A directory argument that is no existing directory.
NotDirectories == {DirM, FileN}

\* C12: index_directory on a path that is no existing directory returns Ok
\* without listing anything and leaves the store as it was.
C12_NotADirectoryNoOp ==
    [][(pc = "idle" /\ pc' # "idle" /\ directory' \in NotDirectories) =>
          (pc' = "indexed" /\ entries' = <<>> /\ store' = store)]_vars

\* A run on a missing path or on a file returned Ok with rows in the store.
C12_Witness ==
    /\ pc = "indexed"
    /\ directory \in NotDirectories
    /\ Len(store) > 0

\* C13: after an index run on a path that is no existing directory the
\* search of the same invocation runs to completion, scoped or global.
C13_SearchAfterNoOp ==
    (directory \in NotDirectories) => pc # "search_failed"

\* The store with the ocr_date of f's row replaced by text that is no
\* RFC 3339 date, as another writer of the database file could leave it.
Unparseable(st, f) ==
    [i \in 1..Len(st) |->
        IF st[i].filename = FileName(f) /\ st[i].path = PathStr(Parent(f))
        THEN [st[i] EXCEPT !.ocr_date = [@ EXCEPT !.offset = "?"]]
        ELSE st[i]]

\* C14: for a file with a row, a stored date that cannot be parsed or a
\* modified-time that cannot be read makes needs_ocr an error, neither true
\* nor false; the iteration then leaves the store as it was, does not
\* extract, and does not take the file for fresh.
C14_StalenessErrors ==
    /\ \A f \in Files :
           (pc = "walk" /\ RowFor(f) # {}) =>
               LET bad == Unparseable(store, f)
                   cat == [EnvOk EXCEPT !.text = <<"c", "a", "t">>]
                   r1 == loop_body(bad, mtime, f, cat, now)
                   r2 == loop_body(store, mtime, f,
                                   [cat EXCEPT !.meta_ok = FALSE], now)
               IN  /\ ~needs_ocr(bad, f, [ok |-> TRUE, val |-> mtime[f]]).ok
                   /\ ~needs_ocr(store, f, [ok |-> FALSE, val |-> 0]).ok
                   /\ r1.verdict = "stale_err" /\ r1.store = bad /\ ~r1.needed
                   /\ r2.verdict = "stale_err" /\ r2.store = store /\ ~r2.needed
    /\ (last.verdict = "stale_err") =>
           /\ ~last.changed
           /\ ~last.ocr
           /\ RowsOf(store, last.filename, last.path) # {}

\* The walk could not read the modified-time of a file that has a row.
C14_Witness ==
    /\ last.verdict = "stale_err"
    /\ pc = "index_failed"
    /\ \E f \in Files : Identity(f) = <<last.filename, last.path>> /\ RowFor(f) # {}

\* The entries through which an index run can come to each picture.
EntriesTo ==
    LET all == UNION {{ReadDir(d)[i] : i \in 1..Len(ReadDir(d))} : d \in DirArgs}
    IN  [f \in Files |-> {e \in all : IsFile(e) /\ Canonicalize(e).path = f}]

\* The row a completed store_ocr_result of f at tick t with text x leaves.
CompleteRow(f, x, t) ==
    [filename |-> FileName(f), path |-> PathStr(Parent(f)), text |-> x,
     ocr_date |-> ToRfc3339(Instant(t)), ocr_success |-> TRUE,
     ocr_engine |-> "tesseract"]

\* C15: whenever an index run is interrupted the store holds complete rows
\* only: each identity has the whole row of its latest committed write (the
\* previous row, or the new one written in full), every committed row is
\* still there, and a run that follows skips extraction for each file whose
\* committed row is not stale and processes each file without a row.
C15_Interruption ==
    /\ \A f \in Files :
           IF written[f].at < 0 THEN RowFor(f) = {}
           ELSE /\ Cardinality(RowFor(f)) = 1
                /\ \A i \in RowFor(f) :
                       store[i] = CompleteRow(f, written[f].text, written[f].at)
                /\ written[f].text # <<>>
    /\ Len(store) = Cardinality({f \in Files : written[f].at >= 0})
    /\ (pc \in {"idle", "walk"}) => \A f \in Files : \A e \in EntriesTo[f] :
           LET r == loop_body(store, mtime, e,
                              [EnvOk EXCEPT !.text = <<"c", "a", "t">>], now)
           IN  /\ (RowFor(f) # {} /\ mtime[f] <= written[f].at) =>
                      (r.verdict = "fresh" /\ ~r.needed /\ r.store = store)
               /\ (RowFor(f) = {}) => r.needed

\* The process was killed after x.png had its row and before t.PNG had one,
\* and the next run of the directory has listed its entries.
C15_Witness ==
    /\ last.verdict = "interrupted"
    /\ pc = "walk"
    /\ idx = 1
    /\ directory = Dot
    /\ RowFor(FileX) # {}
    /\ mtime[FileX] <= written[FileX].at
    /\ RowFor(FileT) = {}

\* C16: a supported file without a row whose extraction gives text that is
\* empty after trimming stays without a row, so every later run that comes
\* to it finds that it needs indexing and extracts again, and it gets its
\* row once an extraction gives text.
C16_EmptyStaysUnindexed ==
    /\ \A f \in Files : \A e \in EntriesTo[f], x \in RawTexts, mok \in BOOLEAN :
           (RowFor(f) = {}) =>
               LET r == loop_body(store, mtime, e,
                                  [EnvOk EXCEPT !.text = x, !.meta_ok = mok], now)
               IN  /\ r.needed
                   /\ IF Trim(x) = <<>>
                      THEN r.verdict = "empty" /\ r.store = store
                      ELSE /\ r.verdict = "stored"
                           /\ RowsOf(r.store, FileName(f), PathStr(Parent(f))) # {}
    /\ (last.verdict = "empty") =>
           /\ last.ocr
           /\ ~last.changed

\* The second run of a directory in a row extracted a file again that the
\* first run had left without a row, and found no text in it.
C16_Witness ==
    /\ pc = "walk"
    /\ prev.dir = directory
    /\ last.verdict = "empty"
    /\ <<last.filename, last.path>> \notin prev.ok
    /\ RowsOf(store, last.filename, last.path) = {}

\* The identities that have a row.
Identities(st) == {<<st[i].filename, st[i].path>> : i \in 1..Len(st)}

\* C17: nothing deletes a record: over every step of index runs and
\* searches the set of identities in the store stays or grows, also when a
\* file can no longer be reached.
C17_NoDeletion == [][Identities(store) \subseteq Identities(store')]_vars

\* Two identities have rows and a later walk could not reach a file.
C17_Witness ==
    /\ Cardinality(Identities(store)) = 2
    /\ last.verdict = "canon_err"

\* The verdicts of an iteration that called extract_text.
Extracted == {"stored", "empty", "extract_err", "store_err"}

\* The running walk is the second run in a row of its directory, and no
\* picture of the directory has been modified since the first one completed.
SecondRun == pc = "walk" /\ prev.dir = directory

\* C18: if an index run of a directory completes and no file in it is
\* modified afterwards, a second run of the same directory extracts none of
\* the files that obtained a record in the first run and leaves every row
\* of the store unchanged.
C18_Idempotent ==
    (SecondRun /\ idx > 1 /\ last.verdict # "none") =>
        /\ ~last.replaced
        /\ (last.verdict \in Extracted) =>
               <<last.filename, last.path>> \notin prev.ok

\* C18, amended: the second run extracts none of the files that obtained a
\* record in the first run and whose modified-time is not later than the
\* extracted_at of that record, and leaves the rows of those files unchanged.
C18_IdempotentUnmodified ==
    (SecondRun /\ idx <= Len(entries)) =>
        LET e == entries[idx]
            f == Canonicalize(e).path
        IN  (IsFile(e) /\ f \in Files /\ Identity(f) \in prev.ok
                 /\ mtime[f] <= written[f].at) =>
                \A env \in Envs :
                    LET r == loop_body(store, mtime, e, env, now)
                    IN  /\ ~r.needed
                        /\ r.verdict \notin Extracted
                        /\ r.store = store

\* The second run found fresh a file that got its record in the first run.
C18_Witness ==
    /\ SecondRun
    /\ idx > 1
    /\ last.verdict = "fresh"
    /\ <<last.filename, last.path>> \in prev.ok

\* C19: a file that was modified after its bytes were read for extraction
\* and before its record was committed is still reported by needs_ocr as
\* needing indexing, so that a file needs_ocr finds fresh has the text of
\* its latest content in the store.
C19_CacheCoherent ==
    \A f \in Files :
        (RowFor(f) # {} /\ written[f].src < mtime[f] /\ mtime[f] < written[f].at) =>
            needs_ocr(store, f, [ok |-> TRUE, val |-> mtime[f]]).val

\* C20: every record written while indexing directory D has the canonical
\* path of D as its parent directory, so that after the run the search
\* scoped to D has every file the run stored among its candidates, also one
\* reached through a symbolic link.
C20_StoredUnderDirectory ==
    LET d == PathStr(Canonicalize(directory).path)
    IN  /\ (pc = "walk" /\ last.verdict = "stored") => last.path = d
        /\ (pc = "indexed" /\ IsDir(directory)) =>
               LET q == items_to_search(store, directory, FALSE).items
               IN  \A id \in okFiles :
                       /\ id[2] = d
                       /\ \E i \in 1..Len(q) : q[i][1] = JoinStr(d, id[1])

====
